---- MODULE Spec2Model ----
(***************************************************************************)
(* The USP_VIREL protocol state machine, as implemented twice in the       *)
(* repository: src/USP-VIREL.py (the "core" copy) and src/usp_cli.py (the  *)
(* "cli" copy).  Both copies are constructed from the same arguments and   *)
(* driven side by side by the same calls; each keeps its own fields and    *)
(* its own per-call outcome (return value, raised error, printed events).  *)
(*                                                                         *)
(* Python values are encoded as strings where their types would differ:    *)
(* return values are "True", "False", "None" or a tag, "raise" when the    *)
(* call raised; errors are "none" or the exception raised.                 *)
(***************************************************************************)
EXTENDS Integers, Sequences, FiniteSets, TLC

\* ------------------------------------------------------------------------
\* Bounds of the model
\* ------------------------------------------------------------------------
MaxDomains == 2      \* longest configured domain list
MaxLamport == 1      \* largest lamport_max / initial lamport tried

\* ------------------------------------------------------------------------
\* Program constants
\* ------------------------------------------------------------------------
VoteCap == 2         \* len(self.quorum_votes[domain]) >= 2

DomainIds == {"A", "B"}
UnknownDomainId == "Z"
Tokens == <<"HALT", "RES">>
UnknownTokenId == "BAD"
AllTokens == {"HALT", "RES", UnknownTokenId}
States == {"OPERATIONAL", "SAFE_ON"}

Range(s) == {s[i] : i \in 1..Len(s)}
SeqsUpTo(S, n) == UNION {[1..k -> S] : k \in 0..n}
Min(S) == CHOOSE x \in S : \A y \in S : x <= y


\* Python's empty dict.
EmptyDict == [d \in {} |-> <<>>]

\* ------------------------------------------------------------------------
\* Constructor arguments tried
\* ------------------------------------------------------------------------
DomainLists == SeqsUpTo(DomainIds, MaxDomains)
EpochMaxArgs == {-1, 1}
EpochArgs == {-1, 0, 2}
LamportMaxArgs == -1..MaxLamport
LamportArgs == -1..MaxLamport
StateArgs == States \cup {"BOGUS"}
TimerArgs == {-1, 0}
VoteSeqArgs ==
    { <<>>, <<"HALT">>, <<"HALT", "RES">>, <<"RES", "HALT", "RES">>,
      <<UnknownTokenId>> }
VoteMapArgs == UNION {[K -> VoteSeqArgs] : K \in SUBSET DomainIds}

VARIABLES
    cfg,        \* USPVirelConfig shared by both copies
    core,       \* the machine of src/USP-VIREL.py
    cli,        \* the machine of src/usp_cli.py
    call,       \* the call made last
    core_out,   \* what that call did on the core copy
    cli_out     \* what that call did on the cli copy

vars == <<cfg, core, cli, call, core_out, cli_out>>

USPVirelConfig(domains, tokens, epoch_max, lamport_max, hold_ms) ==
    [domains |-> domains, tokens |-> tokens, epoch_max |-> epoch_max,
     lamport_max |-> lamport_max, hold_ms |-> hold_ms]

USPVirel(state, epoch, lamport, quorum_votes, provisional_timer) ==
    [alive |-> TRUE, state |-> state, epoch |-> epoch, lamport |-> lamport,
     quorum_votes |-> quorum_votes, provisional_timer |-> provisional_timer]

\* What is left when the constructor raised: no object.
NoMachine ==
    [alive |-> FALSE, state |-> "NONE", epoch |-> 0, lamport |-> 0,
     quorum_votes |-> EmptyDict, provisional_timer |-> 0]

Outcome(m, ret, err, trace) == [m |-> m, ret |-> ret, err |-> err, trace |-> trace]
Out(r) == [ret |-> r.ret, err |-> r.err, trace |-> r.trace]
NoOut == [ret |-> "None", err |-> "none", trace |-> <<>>]

\* ========================================================================
\* src/USP-VIREL.py
\* ========================================================================

\* "HALT" in self.quorum_votes[domain]
has_halt(m, domain) ==
    \E i \in 1..Len(m.quorum_votes[domain]) : m.quorum_votes[domain][i] = "HALT"

\* "ok", or the exception the asserts raise.
check_type_ok(c, m) ==
    IF /\ m.state \in {"OPERATIONAL", "SAFE_ON"}
       /\ 0 <= m.epoch /\ m.epoch <= c.epoch_max
       /\ 0 <= m.lamport /\ m.lamport <= c.lamport_max
       /\ DOMAIN m.quorum_votes = Range(c.domains)
       /\ \A d \in DOMAIN m.quorum_votes :
             \A i \in 1..Len(m.quorum_votes[d]) :
                m.quorum_votes[d][i] \in Range(c.tokens)
       /\ m.provisional_timer >= 0
    THEN "ok"
    ELSE "AssertionError"

\* any(self._has_halt(d) for d in self.cfg.domains): the domains are visited
\* in configured order up to the first one holding "HALT"; indexing a domain
\* that has no entry raises KeyError.
any_has_halt(c, m) ==
    LET hit(i) == /\ c.domains[i] \in DOMAIN m.quorum_votes
                  /\ has_halt(m, c.domains[i])
        miss(i) == c.domains[i] \notin DOMAIN m.quorum_votes
        stop == {i \in 1..Len(c.domains) : hit(i) \/ miss(i)}
    IN  IF stop = {} THEN "False"
        ELSE IF miss(Min(stop)) THEN "KeyError" ELSE "True"

check_safe_state(c, m) ==
    IF m.state # "SAFE_ON" THEN "ok"
    ELSE LET a == any_has_halt(c, m)
         IN  IF a = "True" THEN "ok"
             ELSE IF a = "False" THEN "AssertionError" ELSE a

assert_invariants(c, m) ==
    IF check_type_ok(c, m) # "ok" THEN check_type_ok(c, m)
    ELSE check_safe_state(c, m)

\* The outcome of a call that ends with the two checks and then returns ret.
checked(c, m, ret, trace) ==
    LET e == assert_invariants(c, m)
    IN  IF e = "ok" THEN Outcome(m, ret, "none", trace)
        ELSE Outcome(m, "raise", e, trace)

post_init(c, state, epoch, lamport, quorum_votes, provisional_timer) ==
    LET qv == IF quorum_votes = EmptyDict
              THEN [d \in Range(c.domains) |-> <<>>]
              ELSE quorum_votes
        m == USPVirel(state, epoch, lamport, qv, provisional_timer)
    IN  IF check_type_ok(c, m) = "ok" THEN m ELSE NoMachine

\* cast_vote with the capacity test off by one (> instead of >=).
cast_vote_off_by_one(c, m, domain, token) ==
    IF domain \notin Range(c.domains)
    THEN Outcome(m, "raise", "ValueError: Unknown domain", <<>>)
    ELSE IF token \notin Range(c.tokens)
    THEN Outcome(m, "raise", "ValueError: Unknown token", <<>>)
    ELSE IF m.state # "OPERATIONAL"
    THEN Outcome(m, "False", "none", <<>>)
    ELSE IF Len(m.quorum_votes[domain]) > VoteCap
    THEN Outcome(m, "False", "none", <<>>)
    ELSE checked(c,
                 [m EXCEPT !.quorum_votes[domain] = Append(@, token)],
                 "True",
                 << <<"CAST", token, "IN", domain>> >>)

\* cast_vote without the test of state: votes are accepted in SAFE_ON too.
cast_vote_ignores_state(c, m, domain, token) ==
    IF domain \notin Range(c.domains)
    THEN Outcome(m, "raise", "ValueError: Unknown domain", <<>>)
    ELSE IF token \notin Range(c.tokens)
    THEN Outcome(m, "raise", "ValueError: Unknown token", <<>>)
    ELSE IF Len(m.quorum_votes[domain]) >= VoteCap
    THEN Outcome(m, "False", "none", <<>>)
    ELSE checked(c,
                 [m EXCEPT !.quorum_votes[domain] = Append(@, token)],
                 "True",
                 << <<"CAST", token, "IN", domain>> >>)

\* cast_vote that inserts the token at the front (insert(0, token)).
cast_vote_prepends(c, m, domain, token) ==
    IF domain \notin Range(c.domains)
    THEN Outcome(m, "raise", "ValueError: Unknown domain", <<>>)
    ELSE IF token \notin Range(c.tokens)
    THEN Outcome(m, "raise", "ValueError: Unknown token", <<>>)
    ELSE IF m.state # "OPERATIONAL"
    THEN Outcome(m, "False", "none", <<>>)
    ELSE IF Len(m.quorum_votes[domain]) >= VoteCap
    THEN Outcome(m, "False", "none", <<>>)
    ELSE checked(c,
                 [m EXCEPT !.quorum_votes[domain] = <<token>> \o @],
                 "True",
                 << <<"CAST", token, "IN", domain>> >>)
\* cast_vote that overwrites the last vote of a full domain instead of
\* refusing.
cast_vote_overwrites(c, m, domain, token) ==
    IF domain \notin Range(c.domains)
    THEN Outcome(m, "raise", "ValueError: Unknown domain", <<>>)
    ELSE IF token \notin Range(c.tokens)
    THEN Outcome(m, "raise", "ValueError: Unknown token", <<>>)
    ELSE IF m.state # "OPERATIONAL"
    THEN Outcome(m, "False", "none", <<>>)
    ELSE IF Len(m.quorum_votes[domain]) >= VoteCap
    THEN checked(c,
                 [m EXCEPT !.quorum_votes[domain][VoteCap] = token],
                 "True",
                 << <<"CAST", token, "IN", domain>> >>)
    ELSE checked(c,
                 [m EXCEPT !.quorum_votes[domain] = Append(@, token)],
                 "True",
                 << <<"CAST", token, "IN", domain>> >>)


cast_vote(c, m, domain, token) ==
    IF domain \notin Range(c.domains)
    THEN Outcome(m, "raise", "ValueError: Unknown domain", <<>>)
    ELSE IF token \notin Range(c.tokens)
    THEN Outcome(m, "raise", "ValueError: Unknown token", <<>>)
    ELSE IF m.state # "OPERATIONAL"
    THEN Outcome(m, "False", "none", <<>>)
    ELSE IF Len(m.quorum_votes[domain]) >= VoteCap
    THEN Outcome(m, "False", "none", <<>>)
    ELSE checked(c,
                 [m EXCEPT !.quorum_votes[domain] = Append(@, token)],
                 "True",
                 << <<"CAST", token, "IN", domain>> >>)

\* halt_stops without the test for "HALT": any full domain qualifies.
halt_stops_any_full(c, m) ==
    {i \in 1..Len(c.domains) :
        \/ c.domains[i] \notin DOMAIN m.quorum_votes
        \/ Len(m.quorum_votes[c.domains[i]]) >= VoteCap}

\* halt_stops without the test of the length: one "HALT" vote is enough.
halt_stops_any_halt(c, m) ==
    {i \in 1..Len(c.domains) :
        \/ c.domains[i] \notin DOMAIN m.quorum_votes
        \/ has_halt(m, c.domains[i])}

\* The domains in configured order that end the loop of halt_precedence:
\* one with a quorum holding "HALT", or one whose lookup raises KeyError.
halt_stops(c, m) ==
    {i \in 1..Len(c.domains) :
        \/ c.domains[i] \notin DOMAIN m.quorum_votes
        \/ /\ Len(m.quorum_votes[c.domains[i]]) >= VoteCap
           /\ has_halt(m, c.domains[i])}

\* halt_precedence that forgets to advance lamport.
halt_precedence_no_tick(c, m) ==
    IF m.state # "OPERATIONAL" THEN Outcome(m, "False", "none", <<>>)
    ELSE IF halt_stops(c, m) = {} THEN Outcome(m, "False", "none", <<>>)
    ELSE LET d == c.domains[Min(halt_stops(c, m))]
         IN  IF d \notin DOMAIN m.quorum_votes
             THEN Outcome(m, "raise", "KeyError", <<>>)
             ELSE IF m.lamport >= c.lamport_max
             THEN Outcome(m, "raise",
                          "AssertionError: LamportMax would be exceeded", <<>>)
             ELSE checked(c,
                          [m EXCEPT !.state = "SAFE_ON"],
                          "True",
                          << <<"HALT QUORUM FOR", d, "-> SAFE_ON">> >>)

\* halt_precedence that also advances epoch on the transition.
halt_precedence_bumps_epoch(c, m) ==
    IF m.state # "OPERATIONAL" THEN Outcome(m, "False", "none", <<>>)
    ELSE IF halt_stops(c, m) = {} THEN Outcome(m, "False", "none", <<>>)
    ELSE LET d == c.domains[Min(halt_stops(c, m))]
         IN  IF d \notin DOMAIN m.quorum_votes
             THEN Outcome(m, "raise", "KeyError", <<>>)
             ELSE IF m.lamport >= c.lamport_max
             THEN Outcome(m, "raise",
                          "AssertionError: LamportMax would be exceeded", <<>>)
             ELSE checked(c,
                          [m EXCEPT !.state = "SAFE_ON", !.lamport = @ + 1,
                                    !.epoch = @ + 1],
                          "True",
                          << <<"HALT QUORUM FOR", d, "-> SAFE_ON">> >>)

\* halt_precedence that keeps scanning and transitions on the last match.
halt_precedence_last_match(c, m) ==
    IF m.state # "OPERATIONAL" THEN Outcome(m, "False", "none", <<>>)
    ELSE IF halt_stops(c, m) = {} THEN Outcome(m, "False", "none", <<>>)
    ELSE LET last == CHOOSE i \in halt_stops(c, m) :
                        \A j \in halt_stops(c, m) : j <= i
             d == c.domains[last]
         IN  IF d \notin DOMAIN m.quorum_votes
             THEN Outcome(m, "raise", "KeyError", <<>>)
             ELSE IF m.lamport >= c.lamport_max
             THEN Outcome(m, "raise",
                          "AssertionError: LamportMax would be exceeded", <<>>)
             ELSE checked(c,
                          [m EXCEPT !.state = "SAFE_ON", !.lamport = @ + 1],
                          "True",
                          << <<"HALT QUORUM FOR", d, "-> SAFE_ON">> >>)

\* halt_precedence that advances lamport but forgets to set state.
halt_precedence_keeps_state(c, m) ==
    IF m.state # "OPERATIONAL" THEN Outcome(m, "False", "none", <<>>)
    ELSE IF halt_stops(c, m) = {} THEN Outcome(m, "False", "none", <<>>)
    ELSE LET d == c.domains[Min(halt_stops(c, m))]
         IN  IF d \notin DOMAIN m.quorum_votes
             THEN Outcome(m, "raise", "KeyError", <<>>)
             ELSE IF m.lamport >= c.lamport_max
             THEN Outcome(m, "raise",
                          "AssertionError: LamportMax would be exceeded", <<>>)
             ELSE checked(c,
                          [m EXCEPT !.lamport = @ + 1],
                          "True",
                          << <<"HALT QUORUM FOR", d, "-> SAFE_ON">> >>)

halt_precedence(c, m) ==
    IF m.state # "OPERATIONAL" THEN Outcome(m, "False", "none", <<>>)
    ELSE IF halt_stops(c, m) = {} THEN Outcome(m, "False", "none", <<>>)
    ELSE LET d == c.domains[Min(halt_stops(c, m))]
         IN  IF d \notin DOMAIN m.quorum_votes
             THEN Outcome(m, "raise", "KeyError", <<>>)
             ELSE IF m.lamport >= c.lamport_max
             THEN Outcome(m, "raise",
                          "AssertionError: LamportMax would be exceeded", <<>>)
             ELSE checked(c,
                          [m EXCEPT !.state = "SAFE_ON", !.lamport = @ + 1],
                          "True",
                          << <<"HALT QUORUM FOR", d, "-> SAFE_ON">> >>)

\* safe_on_stays_safe that writes the wrong state back.
safe_on_stays_safe_resets(c, m) ==
    IF m.state # "SAFE_ON" THEN Outcome(m, "False", "none", <<>>)
    ELSE checked(c, [m EXCEPT !.state = "OPERATIONAL"], "True", <<>>)

safe_on_stays_safe(c, m) ==
    IF m.state # "SAFE_ON" THEN Outcome(m, "False", "none", <<>>)
    ELSE checked(c, m, "True", <<>>)

idle(c, m) == checked(c, m, "None", <<>>)

\* auto_step without the attempt of halt_precedence.
auto_step_skips_halt(c, m) ==
    LET r2 == IF m.state = "SAFE_ON"
              THEN safe_on_stays_safe(c, m)
              ELSE idle(c, m)
    IN  IF r2.err # "none" THEN r2
        ELSE Outcome(r2.m, "None", "none", r2.trace)

\* h is what halt_precedence did, r2 what the call made second did;
\* auto_step itself returns None.
auto_step(c, m) ==
    LET With(v, F(_)) == CHOOSE r \in {F(x) : x \in {v}} : TRUE
        second(r2) == IF r2.err # "none" THEN r2
                      ELSE Outcome(r2.m, "None", "none", r2.trace)
        first(h) == IF h.err # "none" THEN h
                    ELSE IF h.ret = "True" THEN Outcome(h.m, "None", "none", h.trace)
                    ELSE With(IF h.m.state = "SAFE_ON"
                              THEN safe_on_stays_safe(c, h.m)
                              ELSE idle(c, h.m), second)
    IN  With(halt_precedence(c, m), first)

cli_has_halt(m, d) ==
    \E i \in 1..Len(m.quorum_votes[d]) : m.quorum_votes[d][i] = "HALT"

\* No check of the key set and none of the sign of provisional_timer.
cli_check_type_ok(c, m) ==
    IF /\ m.state \in {"OPERATIONAL", "SAFE_ON"}
       /\ 0 <= m.epoch /\ m.epoch <= c.epoch_max
       /\ 0 <= m.lamport /\ m.lamport <= c.lamport_max
       /\ m.provisional_timer \in Int
       /\ \A d \in DOMAIN m.quorum_votes :
             \A i \in 1..Len(m.quorum_votes[d]) :
                m.quorum_votes[d][i] \in Range(c.tokens)
    THEN "ok"
    ELSE "AssertionError"

cli_any_has_halt(c, m) ==
    LET hit(i) == /\ c.domains[i] \in DOMAIN m.quorum_votes
                  /\ cli_has_halt(m, c.domains[i])
        miss(i) == c.domains[i] \notin DOMAIN m.quorum_votes
        stop == {i \in 1..Len(c.domains) : hit(i) \/ miss(i)}
    IN  IF stop = {} THEN "False"
        ELSE IF miss(Min(stop)) THEN "KeyError" ELSE "True"

cli_check_safe_state(c, m) ==
    IF m.state # "SAFE_ON" THEN "ok"
    ELSE LET a == cli_any_has_halt(c, m)
         IN  IF a = "True" THEN "ok"
             ELSE IF a = "False" THEN "AssertionError" ELSE a

cli_assert_invariants(c, m) ==
    IF cli_check_type_ok(c, m) # "ok" THEN cli_check_type_ok(c, m)
    ELSE cli_check_safe_state(c, m)

cli_checked(c, m, ret, trace) ==
    LET e == cli_assert_invariants(c, m)
    IN  IF e = "ok" THEN Outcome(m, ret, "none", trace)
        ELSE Outcome(m, "raise", e, trace)

cli_post_init(c, state, epoch, lamport, quorum_votes, provisional_timer) ==
    LET qv == IF quorum_votes = EmptyDict
              THEN [d \in Range(c.domains) |-> <<>>]
              ELSE quorum_votes
        m == USPVirel(state, epoch, lamport, qv, provisional_timer)
    IN  IF cli_check_type_ok(c, m) = "ok" THEN m ELSE NoMachine

\* cli_cast_vote with the capacity test off by one (> instead of >=).
cli_cast_vote_off_by_one(c, m, d, token) ==
    IF m.state # "OPERATIONAL"
    THEN Outcome(m, "False", "none", << <<"Cannot cast vote: state is SAFE_ON.">> >>)
    ELSE IF d \notin Range(c.domains)
    THEN Outcome(m, "False", "none", << <<"Unknown domain", d>> >>)
    ELSE IF token \notin Range(c.tokens)
    THEN Outcome(m, "False", "none", << <<"Unknown token", token>> >>)
    ELSE IF d \notin DOMAIN m.quorum_votes
    THEN Outcome(m, "raise", "KeyError", <<>>)
    ELSE IF Len(m.quorum_votes[d]) > VoteCap
    THEN Outcome(m, "False", "none", << <<"Domain", d, "already has 2 votes.">> >>)
    ELSE cli_checked(c,
                     [m EXCEPT !.quorum_votes[d] = Append(@, token)],
                     "True",
                     << <<"CAST", token, "IN", d>> >>)

\* Every refusal prints a line and returns False; nothing is raised for an
\* unknown domain or token.
cli_cast_vote(c, m, d, token) ==
    IF m.state # "OPERATIONAL"
    THEN Outcome(m, "False", "none", << <<"Cannot cast vote: state is SAFE_ON.">> >>)
    ELSE IF d \notin Range(c.domains)
    THEN Outcome(m, "False", "none", << <<"Unknown domain", d>> >>)
    ELSE IF token \notin Range(c.tokens)
    THEN Outcome(m, "False", "none", << <<"Unknown token", token>> >>)
    ELSE IF d \notin DOMAIN m.quorum_votes
    THEN Outcome(m, "raise", "KeyError", <<>>)
    ELSE IF Len(m.quorum_votes[d]) >= VoteCap
    THEN Outcome(m, "False", "none", << <<"Domain", d, "already has 2 votes.">> >>)
    ELSE cli_checked(c,
                     [m EXCEPT !.quorum_votes[d] = Append(@, token)],
                     "True",
                     << <<"CAST", token, "IN", d>> >>)

cli_halt_stops(c, m) ==
    {i \in 1..Len(c.domains) :
        \/ c.domains[i] \notin DOMAIN m.quorum_votes
        \/ /\ Len(m.quorum_votes[c.domains[i]]) >= VoteCap
           /\ cli_has_halt(m, c.domains[i])}

\* No test of lamport against lamport_max before the assignment: the fields
\* are written first and the check that follows raises on the written state.
cli_halt_precedence(c, m) ==
    IF m.state # "OPERATIONAL" THEN Outcome(m, "False", "none", <<>>)
    ELSE IF cli_halt_stops(c, m) = {} THEN Outcome(m, "False", "none", <<>>)
    ELSE LET d == c.domains[Min(cli_halt_stops(c, m))]
         IN  IF d \notin DOMAIN m.quorum_votes
             THEN Outcome(m, "raise", "KeyError", <<>>)
             ELSE cli_checked(c,
                              [m EXCEPT !.state = "SAFE_ON", !.lamport = @ + 1],
                              "True",
                              << <<"HALT QUORUM FOR", d, "-> SAFE_ON">> >>)

cli_safe_on_stays_safe(c, m) ==
    IF m.state = "SAFE_ON" THEN cli_checked(c, m, "True", <<>>)
    ELSE Outcome(m, "False", "none", <<>>)

cli_idle(c, m) == cli_checked(c, m, "True", <<>>)

step(c, m) ==
    LET With(v, F(_)) == CHOOSE r \in {F(x) : x \in {v}} : TRUE
        second(r2) == IF r2.err # "none" THEN r2
                      ELSE Outcome(r2.m, "safe_on", "none", r2.trace)
        third(r3) == IF r3.err # "none" THEN r3
                     ELSE Outcome(r3.m, "idle", "none", r3.trace)
        first(h) == IF h.err # "none" THEN h
                    ELSE IF h.ret = "True"
                    THEN Outcome(h.m, "halt_precedence", "none", h.trace)
                    ELSE IF h.m.state = "SAFE_ON"
                    THEN With(cli_safe_on_stays_safe(c, h.m), second)
                    ELSE With(cli_idle(c, h.m), third)
    IN  With(cli_halt_precedence(c, m), first)

\* ========================================================================
\* The two copies, constructed from the same arguments and driven by the
\* same calls
\* ========================================================================

Call(op, domain, token) == [op |-> op, domain |-> domain, token |-> token]

Construct(c, state, epoch, lamport, quorum_votes, provisional_timer) ==
    /\ cfg = c
    /\ core = post_init(c, state, epoch, lamport, quorum_votes, provisional_timer)
    /\ cli = cli_post_init(c, state, epoch, lamport, quorum_votes, provisional_timer)
    /\ call = Call("construct", "-", "-")
    /\ core_out = NoOut
    /\ cli_out = NoOut

\* Construction with any of the arguments tried.
Init ==
    \E domains \in DomainLists, epoch_max \in EpochMaxArgs,
       lamport_max \in LamportMaxArgs, state \in StateArgs,
       epoch \in EpochArgs, lamport \in LamportArgs,
       quorum_votes \in VoteMapArgs, provisional_timer \in TimerArgs :
        Construct(USPVirelConfig(domains, Tokens, epoch_max, lamport_max, 0),
                  state, epoch, lamport, quorum_votes, provisional_timer)

\* Construction with the field defaults of the dataclass.
InitDefault ==
    \E domains \in DomainLists, epoch_max \in EpochMaxArgs,
       lamport_max \in LamportMaxArgs :
        Construct(USPVirelConfig(domains, Tokens, epoch_max, lamport_max, 0),
                  "OPERATIONAL", 0, 0, EmptyDict, 0)

\* A call is made on the objects that exist; a and b are what it did on each.
Apply(c, rcore, rcli) ==
    /\ core.alive \/ cli.alive
    /\ \E a \in {IF core.alive THEN rcore ELSE Outcome(core, "None", "none", <<>>)},
          b \in {IF cli.alive THEN rcli ELSE Outcome(cli, "None", "none", <<>>)} :
          /\ call' = c
          /\ core' = a.m
          /\ core_out' = Out(a)
          /\ cli' = b.m
          /\ cli_out' = Out(b)
    /\ UNCHANGED cfg

CastVote ==
    \E domain \in DomainIds \cup {UnknownDomainId}, token \in AllTokens :
        Apply(Call("cast_vote", domain, token),
              cast_vote(cfg, core, domain, token),
              cli_cast_vote(cfg, cli, domain, token))

HaltPrecedence ==
    Apply(Call("halt_precedence", "-", "-"),
          halt_precedence(cfg, core), cli_halt_precedence(cfg, cli))

SafeOnStaysSafe ==
    Apply(Call("safe_on_stays_safe", "-", "-"),
          safe_on_stays_safe(cfg, core), cli_safe_on_stays_safe(cfg, cli))

Idle ==
    Apply(Call("idle", "-", "-"), idle(cfg, core), cli_idle(cfg, cli))

AutoAdvance ==
    Apply(Call("auto_step", "-", "-"), auto_step(cfg, core), step(cfg, cli))

Next ==
    \/ CastVote
    \/ HaltPrecedence
    \/ SafeOnStaysSafe
    \/ Idle
    \/ AutoAdvance

Spec == Init /\ [][Next]_vars

SpecDefault == InitDefault /\ [][Next]_vars

\* The driver keeps calling the auto-advance helper.
SpecFair == InitDefault /\ [][Next]_vars /\ WF_vars(AutoAdvance)
\* ========================================================================
\* Properties
\* ========================================================================

Copies == {"core", "cli"}
Machine(k) == IF k = "core" THEN core ELSE cli
Result(k) == IF k = "core" THEN core_out ELSE cli_out

\* TYPE-OK and SAFE-STATE as the specification words them.
TypeOK(c, m) ==
    /\ m.state \in States
    /\ 0 <= m.epoch /\ m.epoch <= c.epoch_max
    /\ 0 <= m.lamport /\ m.lamport <= c.lamport_max
    /\ DOMAIN m.quorum_votes = Range(c.domains)
    /\ \A d \in DOMAIN m.quorum_votes : Range(m.quorum_votes[d]) \subseteq Range(c.tokens)
    /\ m.provisional_timer >= 0

SafeState(m) ==
    m.state = "SAFE_ON" =>
        \E d \in DOMAIN m.quorum_votes : "HALT" \in Range(m.quorum_votes[d])

\* Some configured domain holds at least 2 votes, one of them "HALT".
HaltQuorum(c, m) ==
    \E d \in Range(c.domains) \cap DOMAIN m.quorum_votes :
        /\ Len(m.quorum_votes[d]) >= 2
        /\ "HALT" \in Range(m.quorum_votes[d])

ValidArgs(k) == k.domain \in Range(cfg.domains) /\ k.token \in Range(cfg.tokens)

\* The call printed the event of the OPERATIONAL -> SAFE_ON transition.
Fired(o) == \E i \in 1..Len(o.trace) : o.trace[i][1] = "HALT QUORUM FOR"

\* ---- C1 ----------------------------------------------------------------
\* C1: after every operation that returns, on a machine that was constructed
\* without error, TYPE-OK and SAFE-STATE hold.
C1_InvariantPreservation ==
    \A k \in Copies :
        (Machine(k).alive /\ call.op # "construct" /\ Result(k).err = "none")
            => TypeOK(cfg, Machine(k)) /\ SafeState(Machine(k))

\* ---- C2 ----------------------------------------------------------------
\* C2: no call, returning or raising, takes a machine out of SAFE_ON, and the
\* only change of state a call makes is OPERATIONAL -> SAFE_ON.
C2_Irreversible ==
    [][\A k \in Copies :
          Machine(k).alive =>
             /\ Machine(k).state = "SAFE_ON" => Machine(k)'.state = "SAFE_ON"
             /\ Machine(k)'.state # Machine(k).state =>
                   Machine(k).state = "OPERATIONAL" /\ Machine(k)'.state = "SAFE_ON"
      ]_vars

\* A call was made on a core machine already in SAFE_ON.
C2_Witness ==
    /\ core.alive /\ core.state = "SAFE_ON"
    /\ call.op = "halt_precedence" /\ core_out.ret = "False"

\* ---- C3 ----------------------------------------------------------------
\* C3: lamport goes up by exactly 1 when HaltPrecedence returns true (called
\* directly or from AutoAdvance) and is unchanged by every other outcome of
\* every call; it never decreases.
C3_Fires ==
    \/ call'.op = "halt_precedence" /\ core_out'.ret = "True"
    \/ call'.op = "auto_step" /\ core_out'.err = "none" /\ Fired(core_out')

C3_LamportMonotonic ==
    [][core.alive =>
          /\ core'.lamport >= core.lamport
          /\ core'.lamport = IF C3_Fires THEN core.lamport + 1 ELSE core.lamport
      ]_vars

\* HaltPrecedence returned true on the core machine.
C3_Witness ==
    /\ core.alive /\ call.op = "halt_precedence" /\ core_out.ret = "True"
    /\ core.lamport >= 1

\* ---- C4 ----------------------------------------------------------------
\* C4 (as amended): no call lengthens a vote sequence that already holds 2
\* entries or more, so on a machine constructed with at most 2 votes in every
\* domain every sequence stays at length <= 2; a CastVote with a configured
\* domain and token on a domain already holding 2 entries returns false and
\* changes no field.
C4_VoteBound(m) == \A d \in DOMAIN m.quorum_votes : Len(m.quorum_votes[d]) <= 2

C4_VoteBoundKept ==
    [][core.alive =>
          /\ C4_VoteBound(core) => C4_VoteBound(core')
          /\ \A d \in DOMAIN core.quorum_votes :
                Len(core.quorum_votes[d]) >= 2 =>
                   Len(core'.quorum_votes[d]) = Len(core.quorum_votes[d])
          /\ ( /\ call'.op = "cast_vote" /\ ValidArgs(call')
               /\ Len(core.quorum_votes[call'.domain]) >= 2 )
             => core_out'.ret = "False" /\ core' = core
      ]_vars

\* A third CastVote was refused on a domain holding exactly 2 votes.
C4_Witness ==
    /\ core.alive /\ core.state = "OPERATIONAL"
    /\ call.op = "cast_vote" /\ ValidArgs(call)
    /\ Len(core.quorum_votes[call.domain]) = 2
    /\ core_out.ret = "False"

\* C4 as stated: in every state of every constructed machine each sequence
\* has length at most 2.
C4_Original == core.alive => C4_VoteBound(core)

C6_Contract(k) ==
    /\ call'.domain \notin Range(cfg.domains) =>
          Result(k)'.err = "ValueError: Unknown domain"
    /\ (call'.domain \in Range(cfg.domains) /\ call'.token \notin Range(cfg.tokens)) =>
          Result(k)'.err = "ValueError: Unknown token"
    /\ ~ValidArgs(call') => Result(k)'.ret # "False" /\ Machine(k)' = Machine(k)

C6_ContractViolations ==
    [][call'.op = "cast_vote" =>
          \A k \in Copies : Machine(k).alive => C6_Contract(k)
      ]_vars

\* ---- C7 ----------------------------------------------------------------
\* C7: HaltPrecedence called on an OPERATIONAL machine with a HALT quorum and
\* lamport = lamport_max raises, and leaves every field as it was.
C7_CounterOverflow ==
    [][\A k \in Copies :
          ( /\ call'.op = "halt_precedence"
            /\ Machine(k).alive
            /\ Machine(k).state = "OPERATIONAL"
            /\ HaltQuorum(cfg, Machine(k))
            /\ Range(cfg.domains) \subseteq DOMAIN Machine(k).quorum_votes
            /\ Machine(k).lamport = cfg.lamport_max )
          => /\ Result(k)'.ret = "raise"
             /\ Result(k)'.err \in {"AssertionError",
                                    "AssertionError: LamportMax would be exceeded"}
             /\ Machine(k)' = Machine(k)
      ]_vars

\* ---- C8 ----------------------------------------------------------------
\* C8: a machine that construction yields satisfies TYPE-OK and SAFE-STATE.
C8_ConstructionChecked ==
    \A k \in Copies :
        (call.op = "construct" /\ Machine(k).alive)
            => TypeOK(cfg, Machine(k)) /\ SafeState(Machine(k))

\* ---- C9 ----------------------------------------------------------------
\* C9: no machine exists for a configuration with an empty or duplicated
\* domain list or a negative epoch_max or lamport_max.
C9_WellFormed(c) ==
    /\ Len(c.domains) > 0
    /\ \A i, j \in 1..Len(c.domains) : c.domains[i] = c.domains[j] => i = j
    /\ c.epoch_max >= 0
    /\ c.lamport_max >= 0

C9_MalformedRejected ==
    \A k \in Copies : Machine(k).alive => C9_WellFormed(cfg)

\* ---- C10 ---------------------------------------------------------------
\* C10: AutoAdvance returns the tag of the action it took: HaltPrecedence when
\* that fired, else SafeOnStaysSafe in SAFE_ON, else Idle.
C10_Tag(k) ==
    IF Fired(Result(k)') THEN "halt_precedence"
    ELSE IF Machine(k).state = "SAFE_ON" THEN "safe_on"
    ELSE "idle"

C10_AutoAdvanceTag ==
    [][call'.op = "auto_step" =>
          \A k \in Copies :
             (Machine(k).alive /\ Result(k)'.err = "none")
                => Result(k)'.ret = C10_Tag(k)
      ]_vars

\* ---- C11 ---------------------------------------------------------------
\* C11: in SAFE_ON no call changes any field; CastVote with a configured
\* domain and token returns false, HaltPrecedence returns false, and
\* AutoAdvance does not fire HaltPrecedence but goes on to SafeOnStaysSafe
\* (the cli copy reports that branch by its tag).
C11_SafeOnSink ==
    [][\A k \in Copies :
          (Machine(k).alive /\ Machine(k).state = "SAFE_ON") =>
             /\ Machine(k)' = Machine(k)
             /\ (call'.op = "cast_vote" /\ ValidArgs(call')) => Result(k)'.ret = "False"
             /\ call'.op = "halt_precedence" => Result(k)'.ret = "False"
             /\ call'.op = "auto_step" =>
                   /\ ~Fired(Result(k)')
                   /\ (k = "cli" /\ Result(k)'.err = "none") => Result(k)'.ret = "safe_on"
                   /\ (k = "core" /\ Result(k)'.err = "none") => Result(k)'.ret = "None"
      ]_vars

\* A CastVote with a configured domain and token was refused in SAFE_ON on a
\* domain that still had room.
C11_Witness ==
    /\ core.alive /\ core.state = "SAFE_ON"
    /\ call.op = "cast_vote" /\ ValidArgs(call)
    /\ Len(core.quorum_votes[call.domain]) < 2
    /\ core_out.ret = "False"

\* ---- C12 ---------------------------------------------------------------
\* C12: a call prints an event if and only if it changes a field; a CastVote
\* that returns true prints exactly one event, carrying "CAST", the token and
\* the domain, a HaltPrecedence that returns true prints exactly one event,
\* and a call that returns false prints nothing and changes nothing.
C12_Trace(k) ==
    /\ (Result(k)'.trace # <<>>) <=> (Machine(k)' # Machine(k))
    /\ (call'.op = "cast_vote" /\ Result(k)'.ret = "True") =>
          /\ Len(Result(k)'.trace) = 1
          /\ Result(k)'.trace[1][1] = "CAST"
          /\ Result(k)'.trace[1][2] = call'.token
          /\ Result(k)'.trace[1][Len(Result(k)'.trace[1])] = call'.domain
    /\ (call'.op = "halt_precedence" /\ Result(k)'.ret = "True") =>
          Len(Result(k)'.trace) = 1
    /\ Result(k)'.ret = "False" =>
          Result(k)'.trace = <<>> /\ Machine(k)' = Machine(k)

\* CastVote calls with an unconfigured domain or token are contract errors
\* (C6) and are left out here.
C12_TraceFollowsMutation ==
    [][(call'.op = "cast_vote" => ValidArgs(call')) =>
          \A k \in Copies : Machine(k).alive => C12_Trace(k)
      ]_vars

\* ---- C13 ---------------------------------------------------------------
\* C13: across one call every vote sequence is unchanged or has one token
\* appended at its end; the latter only for the domain and token of a CastVote
\* that returns true, called in OPERATIONAL on a domain with fewer than 2
\* votes; that CastVote changes no other sequence and no other field.
C13_Accepted(k) == call'.op = "cast_vote" /\ Result(k)'.ret = "True"

C13_Frame(k) ==
    LET m == Machine(k)
        n == Machine(k)'
    IN  /\ DOMAIN n.quorum_votes = DOMAIN m.quorum_votes
        /\ \A d \in DOMAIN m.quorum_votes :
              \/ n.quorum_votes[d] = m.quorum_votes[d]
              \/ /\ n.quorum_votes[d] = Append(m.quorum_votes[d], call'.token)
                 /\ C13_Accepted(k)
                 /\ call'.domain = d
                 /\ m.state = "OPERATIONAL"
                 /\ Len(m.quorum_votes[d]) < 2
        /\ C13_Accepted(k) =>
              /\ n.quorum_votes[call'.domain] =
                    Append(m.quorum_votes[call'.domain], call'.token)
              /\ n.state = m.state /\ n.epoch = m.epoch /\ n.lamport = m.lamport
              /\ n.provisional_timer = m.provisional_timer

C13_AppendOnly ==
    [][\A k \in Copies : Machine(k).alive => C13_Frame(k)]_vars

\* A second, different token was appended behind the first.
C13_Witness ==
    /\ core.alive /\ call.op = "cast_vote" /\ core_out.ret = "True"
    /\ call.token = "HALT"
    /\ core.quorum_votes[call.domain] = <<"RES", "HALT">>

\* ---- C14 ---------------------------------------------------------------
\* C14: no call changes epoch or provisional_timer, so both keep the values
\* they had at construction; HaltPrecedence, whether it fires, returns false
\* or raises, changes no vote sequence.
C14_Inert ==
    [][\A k \in Copies :
          Machine(k).alive =>
             /\ Machine(k)'.epoch = Machine(k).epoch
             /\ Machine(k)'.provisional_timer = Machine(k).provisional_timer
             /\ call'.op = "halt_precedence" =>
                   Machine(k)'.quorum_votes = Machine(k).quorum_votes
      ]_vars

\* HaltPrecedence fired on a machine constructed with votes in place.
C14_Witness ==
    /\ core.alive /\ call.op = "halt_precedence" /\ core_out.ret = "True"
    /\ core.epoch = 0 /\ core.provisional_timer = 0
    /\ \E d \in DOMAIN core.quorum_votes : Len(core.quorum_votes[d]) = 3

\* ---- C15 ---------------------------------------------------------------
\* C15: when HaltPrecedence fires, the one event it prints names the first
\* domain, in configured order, that holds at least 2 votes including "HALT"
\* in the state before the call, and the state after the call is that state
\* with state = SAFE_ON and lamport + 1.
C15_Qualifying(m) ==
    {i \in 1..Len(cfg.domains) :
        /\ cfg.domains[i] \in DOMAIN m.quorum_votes
        /\ Len(m.quorum_votes[cfg.domains[i]]) >= 2
        /\ "HALT" \in Range(m.quorum_votes[cfg.domains[i]])}

C15_FirstMatch ==
    [][\A k \in Copies :
          (Machine(k).alive /\ call'.op = "halt_precedence" /\ Result(k)'.ret = "True") =>
             /\ C15_Qualifying(Machine(k)) # {}
             /\ Len(Result(k)'.trace) = 1
             /\ Result(k)'.trace[1][2] = cfg.domains[Min(C15_Qualifying(Machine(k)))]
             /\ Machine(k)' = [Machine(k) EXCEPT !.state = "SAFE_ON",
                                                !.lamport = Machine(k).lamport + 1]
      ]_vars

\* Both domains held a HALT quorum, "B" is configured first and was named.
C15_Witness ==
    /\ core.alive /\ call.op = "halt_precedence" /\ core_out.ret = "True"
    /\ cfg.domains = <<"B", "A">>
    /\ \A d \in {"A", "B"} :
          Len(core.quorum_votes[d]) >= 2 /\ "HALT" \in Range(core.quorum_votes[d])
    /\ core_out.trace[1][2] = "B"

C17_QuorumKept ==
    (core.alive /\ core.state = "SAFE_ON") =>
        \E d \in DOMAIN core.quorum_votes :
            /\ Len(core.quorum_votes[d]) = 2
            /\ "HALT" \in Range(core.quorum_votes[d])

\* SAFE_ON was entered on the quorum of one domain while the other domain held
\* a single "HALT".
C17_Witness ==
    /\ core.alive /\ core.state = "SAFE_ON"
    /\ call.op = "halt_precedence" /\ core_out.ret = "True"
    /\ \E d \in DOMAIN core.quorum_votes : core.quorum_votes[d] = <<"HALT">>
    /\ \E d \in DOMAIN core.quorum_votes : core.quorum_votes[d] = <<"RES", "HALT">>

\* ---- C18 ---------------------------------------------------------------
\* C18: while a machine is OPERATIONAL with a HALT quorum and lamport below
\* lamport_max, the next HaltPrecedence or AutoAdvance call moves it to
\* SAFE_ON and no CastVote, Idle or SafeOnStaysSafe call ends that condition;
\* so, AutoAdvance being called again and again, a HALT quorum leads to
\* SAFE_ON.  Stated for machines constructed with the defaults.
C18_Armed(m) ==
    /\ m.alive
    /\ m.state = "OPERATIONAL"
    /\ HaltQuorum(cfg, m)
    /\ m.lamport < cfg.lamport_max

C18_HaltLive ==
    /\ [][\A k \in Copies :
             C18_Armed(Machine(k)) =>
                IF call'.op \in {"halt_precedence", "auto_step"}
                THEN Machine(k)'.state = "SAFE_ON"
                ELSE C18_Armed(Machine(k)')
         ]_vars
    /\ \A k \in Copies : C18_Armed(Machine(k)) ~> (Machine(k).state = "SAFE_ON")

\* AutoAdvance made the transition, with both domains full.
C18_Witness ==
    /\ core.alive /\ core.state = "SAFE_ON" /\ core.lamport = 1
    /\ call.op = "auto_step" /\ Fired(core_out)
    /\ \A d \in {"A", "B"} :
          d \in DOMAIN core.quorum_votes /\ Len(core.quorum_votes[d]) = 2

\* ---- C19 ---------------------------------------------------------------
\* C19: with lamport_max >= 1 and default construction, the two copies stay
\* in the same state, and CastVote with a configured domain and token,
\* HaltPrecedence and SafeOnStaysSafe return the same boolean on both.
C19_Boolean(k) ==
    \/ k.op = "cast_vote" /\ ValidArgs(k)
    \/ k.op \in {"halt_precedence", "safe_on_stays_safe"}

C19_CopiesAgree ==
    cfg.lamport_max >= 1 =>
        /\ core = cli
        /\ (core.alive /\ C19_Boolean(call)) =>
              /\ core_out.ret = cli_out.ret
              /\ core_out.ret \in {"True", "False"}

\* Both copies made the transition on the same call.
C19_Witness ==
    /\ cfg.lamport_max >= 1 /\ core.alive /\ cli.alive
    /\ call.op = "halt_precedence"
    /\ core_out.ret = "True" /\ cli_out.ret = "True"
    /\ core.state = "SAFE_ON" /\ cli.state = "SAFE_ON"

\* ---- C20 ---------------------------------------------------------------
\* The number of votes held, over all domains.
C20_VotesHeld(m) ==
    Cardinality({p \in (DOMAIN m.quorum_votes) \X (1..(VoteCap + 1)) :
                    p[2] <= Len(m.quorum_votes[p[1]])})

\* The number of state changes made so far, from the default initial state.
C20_Progress(m) == C20_VotesHeld(m) + m.lamport

C20_Budget == VoteCap * Cardinality(Range(cfg.domains)) + 1

====
